---- MODULE Spec2Model ----
(***************************************************************************)
(* The RBAC authorization and data-scoping layer of the chatbot:           *)
(* RBACService (services/rbac_service.py), DataAccessLayer                 *)
(* (services/data_access.py), classify_query (app/query_classifier.py)     *)
(* and ChatbotHandler (app/chatbot_handler.py), over the tables of         *)
(* modules/db/models.py.                                                   *)
(*                                                                         *)
(* A behaviour is one authenticated session: the store and the session's   *)
(* employee id are chosen by Init, every action is one whole call of a     *)
(* handler made on behalf of that employee.  calls counts the calls made,  *)
(* ret records the last call and what it returned.                         *)
(***************************************************************************)
EXTENDS Integers, Sequences, FiniteSets, TLC

\* ------------------------------------------------------------- bounds
NumEmp == 3
NumTask == 2
NumTeam == 2
NumMeeting == 1
MaxCalls == 2
MaxRows == 2
MaxSpeakers == 2
MaxAdmin == 1

\* SQL NULL / Python None in an integer column or argument.
NULL == 0

EmpIds == 1..NumEmp
\* NumEmp + 1 is an id that matches no Employee row.
ActorIds == 1..(NumEmp + 1)
TaskIds == 1..NumTask
TeamIds == 1..NumTeam
MeetingIds == 1..NumMeeting

VARIABLES employee, user_role, role_permission, team_member, task, meeting,
          meeting_transcript, access_log, current_user_id, sql_agent, calls, ret,
          log_fault, in_flight

tables == <<employee, user_role, role_permission, team_member, task, meeting,
            meeting_transcript>>
vars == <<employee, user_role, role_permission, team_member, task, meeting,
          meeting_transcript, access_log, current_user_id, sql_agent, calls, ret,
          log_fault, in_flight>>

\* ------------------------------------------------- configuration tables
Role ==
    { [id |-> 1, name |-> "hr"],
      [id |-> 2, name |-> "manager"],
      [id |-> 3, name |-> "employee"] }

Permission ==
    { [id |-> 1,  name |-> "view_all_employees",       resource_type |-> "employees"],
      [id |-> 2,  name |-> "view_team_employees",      resource_type |-> "employees"],
      [id |-> 3,  name |-> "view_own_employee",        resource_type |-> "employees"],
      [id |-> 4,  name |-> "view_own_tasks",           resource_type |-> "tasks"],
      [id |-> 5,  name |-> "view_team_tasks",          resource_type |-> "tasks"],
      [id |-> 6,  name |-> "assign_tasks",             resource_type |-> "tasks"],
      [id |-> 7,  name |-> "view_all_transcripts",     resource_type |-> "meetings"],
      [id |-> 8,  name |-> "view_own_transcripts",     resource_type |-> "meetings"],
      [id |-> 9,  name |-> "view_all_performance",     resource_type |-> "performance"],
      [id |-> 10, name |-> "view_own_performance",     resource_type |-> "performance"],
      [id |-> 11, name |-> "view_all_recommendations", resource_type |-> "recommendations"],
      [id |-> 12, name |-> "view_own_recommendations", resource_type |-> "recommendations"] }

Grants(role_id, permission_ids) ==
    { [role_id |-> role_id, permission_id |-> p] : p \in permission_ids }

SeedRolePermission ==
    Grants(1, {1, 7, 9, 11}) \cup Grants(2, {2, 5, 6, 8, 10, 12})
        \cup Grants(3, {3, 4, 8, 10, 12})

\* Employee.name is unique; a transcript's speaker label is free text.
EmployeeName == <<"Alice Admin", "Bob Manager", "Charlie Worker", "Diana Worker", "Eve Worker">>
SpeakerNames == { EmployeeName[e] : e \in EmpIds } \cup { "Unknown Speaker" }

ResourceTypes == {"employees", "tasks", "meetings", "performance", "recommendations"}

\* ------------------------------------------------------- RBACService
\* has_permission without the join on the user's roles.
has_permission_ignoring_role(employee_id, permission_name, resource_type) ==
    \E p \in Permission :
        /\ p.name = permission_name
        /\ resource_type # "" => p.resource_type = resource_type

\* has_permission without the filter on the resource type.
has_permission_any_resource_type(employee_id, permission_name, resource_type) ==
    \E p \in Permission, rp \in role_permission, ur \in user_role :
        /\ p.id = rp.permission_id
        /\ rp.role_id = ur.role_id
        /\ ur.employee_id = employee_id
        /\ p.name = permission_name

has_permission(employee_id, permission_name, resource_type) ==
    \E p \in Permission, rp \in role_permission, ur \in user_role :
        /\ p.id = rp.permission_id
        /\ rp.role_id = ur.role_id
        /\ ur.employee_id = employee_id
        /\ p.name = permission_name
        /\ resource_type # "" => p.resource_type = resource_type

\* has_role without the filter on the role's name.
has_role_any(employee_id, role_name) ==
    \E ur \in user_role : ur.employee_id = employee_id

has_role(employee_id, role_name) ==
    \E ur \in user_role, r \in Role :
        /\ ur.role_id = r.id
        /\ ur.employee_id = employee_id
        /\ r.name = role_name

\* get_user_roles giving every role there is.
get_user_roles_every_role(employee_id) == { r.name : r \in Role }

get_user_roles(employee_id) ==
    { r.name : r \in { r \in Role : \E ur \in user_role :
                          ur.role_id = r.id /\ ur.employee_id = employee_id } }

\* is_team_manager without the filter on the team.
is_team_manager_any_team(employee_id, team_id) ==
    \E tm \in team_member : tm.employee_id = employee_id /\ tm.is_manager

is_team_manager(employee_id, team_id) ==
    \E tm \in team_member :
        /\ tm.employee_id = employee_id
        /\ tm.team_id = team_id
        /\ tm.is_manager

get_employee_teams(employee_id) ==
    { tm.team_id : tm \in { tm \in team_member : tm.employee_id = employee_id } }

\* log_access leaving its row as the only row of the table.
log_access_overwriting(log, employee_id, resource_type, resource_id, action, success) ==
    <<[employee_id |-> employee_id, resource_type |-> resource_type,
       resource_id |-> resource_id, action |-> action, success |-> success]>>

\* log_access recording every attempt as a success.
log_access_success(log, employee_id, resource_type, resource_id, action, success) ==
    Append(log, [employee_id |-> employee_id, resource_type |-> resource_type,
                 resource_id |-> resource_id, action |-> action,
                 success |-> TRUE])

\* log_access writing nothing.
log_access_dropped(log, employee_id, resource_type, resource_id, action, success) == log

log_access(log, employee_id, resource_type, resource_id, action, success) ==
    Append(log, [employee_id |-> employee_id, resource_type |-> resource_type,
                 resource_id |-> resource_id, action |-> action,
                 success |-> success])

can_access_task(employee_id, task_id, action) ==
    LET found == { t \in task : t.id = task_id } IN
    IF found = {} THEN FALSE
    ELSE LET t == CHOOSE t \in found : TRUE IN
         IF t.assigned_to_id = employee_id THEN TRUE
         ELSE IF t.created_by_id = employee_id THEN TRUE
         ELSE IF t.team_id # NULL /\ is_team_manager(employee_id, t.team_id) THEN TRUE
         ELSE IF /\ action = "view"
                 /\ has_role(employee_id, "hr")
                 /\ has_permission(employee_id, "view_all_employees", "")
              THEN TRUE
         ELSE FALSE

can_access_meeting(employee_id, meeting_id) ==
    IF has_role(employee_id, "hr")
       /\ has_permission(employee_id, "view_all_transcripts", "")
    THEN TRUE
    ELSE LET found == { e \in employee : e.id = employee_id } IN
         IF found = {} THEN FALSE
         ELSE LET emp == CHOOSE e \in found : TRUE IN
              IF \E mt \in meeting_transcript :
                     mt.meeting_id = meeting_id /\ mt.name = emp.name
              THEN TRUE
              ELSE IF has_role(employee_id, "manager")
              THEN LET subordinate_names ==
                          { s.name : s \in { s \in employee : s.manager_id = employee_id } }
                   IN \E mt \in meeting_transcript :
                          mt.meeting_id = meeting_id /\ mt.name \in subordinate_names
              ELSE FALSE

filter_tasks_for_user(employee_id) ==
    LET roles == get_user_roles(employee_id) IN
    IF "hr" \in roles THEN task
    ELSE IF "manager" \in roles
    THEN LET managed_team_ids ==
                 { tm.team_id : tm \in { tm \in team_member :
                                  tm.employee_id = employee_id /\ tm.is_manager } }
         IN { t \in task : \/ t.assigned_to_id = employee_id
                           \/ t.created_by_id = employee_id
                           \/ t.team_id \in managed_team_ids }
    ELSE { t \in task : \/ t.assigned_to_id = employee_id
                        \/ t.created_by_id = employee_id }

\* ---------------------------------------------------- DataAccessLayer
\* A handler's result: the returned {"data", "error"} and the AccessLog after
\* the call.  data None is the empty set, a record or a list is the set of its
\* serialized rows; error None is the string "None".
Result(data, error, log) == [data |-> data, error |-> error, log |-> log]

_serialize_employee(e) == [id |-> e.id, name |-> e.name, manager_id |-> e.manager_id]

_serialize_task(t) ==
    [id |-> t.id, status |-> t.status, assigned_to_id |-> t.assigned_to_id,
     created_by_id |-> t.created_by_id, team_id |-> t.team_id]

_serialize_meeting(m, include_transcripts) ==
    [id |-> m.id,
     transcripts |-> IF include_transcripts
                     THEN { mt.name : mt \in { mt \in meeting_transcript :
                                                 mt.meeting_id = m.id } }
                     ELSE {}]

\* get_employee taking the hierarchy over two levels.
get_employee_transitive(employee_id, current_user_id_) ==
    LET found == { e \in employee : e.id = employee_id } IN
    IF found = {} THEN Result({}, "Employee not found", access_log)
    ELSE LET e == CHOOSE e \in found : TRUE IN
         IF \/ employee_id = current_user_id_
            \/ e.manager_id = current_user_id_
            \/ \E m \in employee : m.id = e.manager_id /\ m.manager_id = current_user_id_
            \/ /\ has_role(current_user_id_, "hr")
               /\ has_permission(current_user_id_, "view_all_employees", "")
         THEN Result({_serialize_employee(e)}, "None",
                     log_access(access_log, current_user_id_, "employee", employee_id, "view", TRUE))
         ELSE Result({}, "Access denied",
                     log_access(access_log, current_user_id_, "employee", employee_id, "view", FALSE))

get_employee(employee_id, current_user_id_) ==
    LET found == { e \in employee : e.id = employee_id } IN
    IF found = {} THEN Result({}, "Employee not found", access_log)
    ELSE LET e == CHOOSE e \in found : TRUE IN
         IF employee_id = current_user_id_
         THEN Result({_serialize_employee(e)}, "None",
                     log_access(access_log, current_user_id_, "employee", employee_id, "view", TRUE))
         ELSE IF e.manager_id = current_user_id_
         THEN Result({_serialize_employee(e)}, "None",
                     log_access(access_log, current_user_id_, "employee", employee_id, "view", TRUE))
         ELSE IF /\ has_role(current_user_id_, "hr")
                 /\ has_permission(current_user_id_, "view_all_employees", "")
         THEN Result({_serialize_employee(e)}, "None",
                     log_access(access_log, current_user_id_, "employee", employee_id, "view", TRUE))
         ELSE Result({}, "Access denied",
                     log_access(access_log, current_user_id_, "employee", employee_id, "view", FALSE))

get_employees(current_user_id_) ==
    IF /\ has_role(current_user_id_, "hr")
       /\ has_permission(current_user_id_, "view_all_employees", "")
    THEN Result({ _serialize_employee(e) : e \in employee }, "None",
                log_access(access_log, current_user_id_, "employees", NULL, "view_all", TRUE))
    ELSE IF has_role(current_user_id_, "manager")
    THEN Result({ _serialize_employee(e) :
                     e \in { e \in employee : \/ e.id = current_user_id_
                                              \/ e.manager_id = current_user_id_ } },
                "None",
                log_access(access_log, current_user_id_, "employees", NULL, "view_team", TRUE))
    ELSE LET found == { e \in employee : e.id = current_user_id_ } IN
         IF found # {}
         THEN Result({ _serialize_employee(e) : e \in found }, "None",
                     log_access(access_log, current_user_id_, "employee", current_user_id_, "view", TRUE))
         ELSE Result({}, "None", access_log)

\* get_task asking can_access_task before it looks the task up.
get_task_check_first(task_id, current_user_id_) ==
    LET found == { t \in task : t.id = task_id } IN
    IF ~can_access_task(current_user_id_, task_id, "view")
    THEN Result({}, "Access denied",
                log_access(access_log, current_user_id_, "task", task_id, "view", FALSE))
    ELSE IF found = {} THEN Result({}, "Task not found", access_log)
    ELSE Result({ _serialize_task(t) : t \in found }, "None",
                log_access(access_log, current_user_id_, "task", task_id, "view", TRUE))

get_task(task_id, current_user_id_) ==
    LET found == { t \in task : t.id = task_id } IN
    IF found = {} THEN Result({}, "Task not found", access_log)
    ELSE IF can_access_task(current_user_id_, task_id, "view")
    THEN Result({ _serialize_task(t) : t \in found }, "None",
                log_access(access_log, current_user_id_, "task", task_id, "view", TRUE))
    ELSE Result({}, "Access denied",
                log_access(access_log, current_user_id_, "task", task_id, "view", FALSE))

\* The list of Task objects filter_tasks_for_user returned; nothing is logged.
get_tasks(current_user_id_) ==
    Result(filter_tasks_for_user(current_user_id_), "None", access_log)

get_meeting(meeting_id, current_user_id_) ==
    LET found == { m \in meeting : m.id = meeting_id } IN
    IF found = {} THEN Result({}, "Meeting not found", access_log)
    ELSE IF can_access_meeting(current_user_id_, meeting_id)
    THEN Result({ _serialize_meeting(m, TRUE) : m \in found }, "None",
                log_access(access_log, current_user_id_, "meeting", NULL, "view", TRUE))
    ELSE Result({}, "Access denied",
                log_access(access_log, current_user_id_, "meeting", NULL, "view", FALSE))

get_meetings(current_user_id_) ==
    IF /\ has_role(current_user_id_, "hr")
       /\ has_permission(current_user_id_, "view_all_transcripts", "")
    THEN Result({ _serialize_meeting(m, FALSE) : m \in meeting }, "None",
                log_access(access_log, current_user_id_, "meetings", NULL, "view_all", TRUE))
    ELSE LET found == { e \in employee : e.id = current_user_id_ } IN
         IF found = {} THEN Result({}, "Employee not found", access_log)
         ELSE LET e == CHOOSE e \in found : TRUE
                  own_ids == { mt.meeting_id : mt \in { mt \in meeting_transcript :
                                                          mt.name = e.name } }
                  subordinate_names ==
                      { s.name : s \in { s \in employee : s.manager_id = current_user_id_ } }
                  sub_meeting_ids ==
                      { mt.meeting_id : mt \in { mt \in meeting_transcript :
                                                   mt.name \in subordinate_names } }
                  meeting_ids == IF has_role(current_user_id_, "manager")
                                 THEN own_ids \cup sub_meeting_ids
                                 ELSE own_ids
              IN Result({ _serialize_meeting(m, FALSE) :
                             m \in { m \in meeting : m.id \in meeting_ids } },
                        "None",
                        log_access(access_log, current_user_id_, "meetings", NULL,
                                   "view_filtered", TRUE))

\* ---- create_task, update_task
\* What a writing call returns and does: the result, the AccessLog and the
\* Task table after the call, and whether db.commit raised.
Written(data, error, log, rows, raises) ==
    [data |-> data, error |-> error, log |-> log, rows |-> rows, raises |-> raises]

\* The foreign keys of a Task row: assigned_to_id and created_by_id reference
\* Employee and are not nullable, team_id references Team and is nullable.
ForeignKeysHold(t) ==
    /\ \E e \in employee : e.id = t.assigned_to_id
    /\ \E e \in employee : e.id = t.created_by_id
    /\ t.team_id = NULL \/ t.team_id \in TeamIds

\* The id the sequence of Task.id gives the next row.
NextTaskId ==
    LET ids == { t.id : t \in task } \cup {0} IN
    (CHOOSE i \in ids : \A j \in ids : j <= i) + 1

\* create_task without the test that the assignee reports to the caller.
create_task_any_assignee(task_data, current_user_id_) ==
    LET denied == log_access(access_log, current_user_id_, "task", 0, "create", FALSE)
        new == [id |-> NextTaskId, status |-> task_data.status,
                assigned_to_id |-> task_data.assigned_to_id,
                created_by_id |-> current_user_id_, team_id |-> task_data.team_id]
    IN IF /\ task_data.assigned_to_id # current_user_id_
          /\ \/ ~has_role(current_user_id_, "manager")
             \/ ~has_permission(current_user_id_, "assign_tasks", "")
       THEN Written({}, "Permission denied to assign tasks", denied, task, FALSE)
       ELSE IF /\ task_data.team_id # NULL
               /\ task_data.team_id \notin get_employee_teams(task_data.assigned_to_id)
       THEN Written({}, "Assignee is not in the specified team", denied, task, FALSE)
       ELSE IF ~ForeignKeysHold(new)
       THEN Written({}, "None", access_log, task, TRUE)
       ELSE Written({_serialize_task(new)}, "None",
                    log_access(access_log, current_user_id_, "task", new.id, "create", TRUE),
                    task \cup {new}, FALSE)

\* task_data.get('assigned_to_id') and task_data.get('team_id') give NULL for
\* a missing key; task_data.status is task_data.get('status', 'pending').
create_task(task_data, current_user_id_) ==
    LET denied == log_access(access_log, current_user_id_, "task", 0, "create", FALSE)
        assigned_user == { e \in employee : e.id = task_data.assigned_to_id }
        new == [id |-> NextTaskId, status |-> task_data.status,
                assigned_to_id |-> task_data.assigned_to_id,
                created_by_id |-> current_user_id_, team_id |-> task_data.team_id]
    IN IF /\ task_data.assigned_to_id # current_user_id_
          /\ \/ ~has_role(current_user_id_, "manager")
             \/ ~has_permission(current_user_id_, "assign_tasks", "")
       THEN Written({}, "Permission denied to assign tasks", denied, task, FALSE)
       ELSE IF /\ task_data.assigned_to_id # current_user_id_
               /\ \A e \in assigned_user : e.manager_id # current_user_id_
       THEN Written({}, "Can only assign tasks to subordinates", denied, task, FALSE)
       ELSE IF /\ task_data.team_id # NULL
               /\ task_data.team_id \notin get_employee_teams(task_data.assigned_to_id)
       THEN Written({}, "Assignee is not in the specified team", denied, task, FALSE)
       ELSE IF ~ForeignKeysHold(new)
       THEN Written({}, "None", access_log, task, TRUE)
       ELSE Written({_serialize_task(new)}, "None",
                    log_access(access_log, current_user_id_, "task", new.id, "create", TRUE),
                    task \cup {new}, FALSE)

\* The row t after setattr of every key of task_data (status and
\* assigned_to_id are attributes of Task).
SetAttrs(t, task_data) ==
    [t EXCEPT !.status = IF "status" \in task_data.keys
                         THEN task_data.status ELSE @,
              !.assigned_to_id = IF "assigned_to_id" \in task_data.keys
                                 THEN task_data.assigned_to_id ELSE @]

\* update_task letting the assignee set every key.
update_task_assignee_any_field(task_id, task_data, current_user_id_) ==
    LET found == { t \in task : t.id = task_id } IN
    IF found = {} THEN Written({}, "Task not found", access_log, task, FALSE)
    ELSE LET t == CHOOSE t \in found : TRUE
             denied == log_access(access_log, current_user_id_, "task", task_id,
                                  "update", FALSE)
             updated == SetAttrs(t, task_data)
         IN IF /\ t.created_by_id # current_user_id_
               /\ ~(/\ has_role(current_user_id_, "manager")
                    /\ is_team_manager(current_user_id_, t.team_id))
               /\ t.assigned_to_id # current_user_id_
            THEN Written({}, "Access denied", denied, task, FALSE)
            ELSE IF ~ForeignKeysHold(updated)
            THEN Written({}, "None", access_log, task, TRUE)
            ELSE Written({_serialize_task(updated)}, "None",
                         log_access(access_log, current_user_id_, "task", task_id,
                                    "update", TRUE),
                         (task \ {t}) \cup {updated}, FALSE)

update_task(task_id, task_data, current_user_id_) ==
    LET found == { t \in task : t.id = task_id } IN
    IF found = {} THEN Written({}, "Task not found", access_log, task, FALSE)
    ELSE LET t == CHOOSE t \in found : TRUE
             denied == log_access(access_log, current_user_id_, "task", task_id,
                                  "update", FALSE)
             updated == SetAttrs(t, task_data)
             creator == t.created_by_id = current_user_id_
             team_manager == /\ has_role(current_user_id_, "manager")
                             /\ is_team_manager(current_user_id_, t.team_id)
         IN IF /\ ~creator /\ ~team_manager
               /\ t.assigned_to_id = current_user_id_
               /\ task_data.keys \ {"status"} # {}
            THEN Written({}, "Assignees can only update task status", denied, task, FALSE)
            ELSE IF /\ ~creator /\ ~team_manager
                    /\ t.assigned_to_id # current_user_id_
            THEN Written({}, "Access denied", denied, task, FALSE)
            ELSE IF ~ForeignKeysHold(updated)
            THEN Written({}, "None", access_log, task, TRUE)
            ELSE Written({_serialize_task(updated)}, "None",
                         log_access(access_log, current_user_id_, "task", task_id,
                                    "update", TRUE),
                         (task \ {t}) \cup {updated}, FALSE)

\* -------------------------------------------------- classify_query
\* A query text is the sequence of its words, separated by single blanks.
Lower(w) ==
    CASE w = "Show" -> "show"
      [] w = "My" -> "my"
      [] w = "Tasks" -> "tasks"
      [] w = "List" -> "list"
      [] OTHER -> w

lower(text) == [i \in 1..Len(text) |-> Lower(text[i])]

\* The words of the vocabulary that hold another one as a prefix.
StartsWith(w, p) ==
    \/ w = p
    \/ <<w, p>> \in { <<"tasks", "task">>, <<"meetings", "meeting">>,
                      <<"employees", "employee">> }

\* Python's `phrase in text`: the phrase occurs at some position, its first
\* word ending a word of the text and its last word starting one.  No word
\* of the vocabulary is a proper suffix of another.
In(phrase, text) ==
    \E i \in 1..Len(text) :
        /\ i + Len(phrase) - 1 <= Len(text)
        /\ \A j \in 1..Len(phrase) :
              IF j = Len(phrase) THEN StartsWith(text[i + j - 1], phrase[j])
              ELSE text[i + j - 1] = phrase[j]

classify_query(query_text_) ==
    LET query_text == lower(query_text_) IN
    IF In(<<"task">>, query_text) \/ In(<<"tasks">>, query_text)
    THEN IF In(<<"my", "tasks">>, query_text) \/ In(<<"show", "my", "tasks">>, query_text)
         THEN <<"tasks", "view_own_tasks">>
         ELSE IF In(<<"team", "tasks">>, query_text) \/ In(<<"show", "team", "tasks">>, query_text)
         THEN <<"tasks", "view_team_tasks">>
         ELSE IF In(<<"create", "task">>, query_text) \/ In(<<"add", "task">>, query_text)
         THEN <<"tasks", "assign_tasks">>
         ELSE <<"tasks", "view_own_tasks">>
    ELSE IF In(<<"meeting">>, query_text) \/ In(<<"meetings">>, query_text)
    THEN IF In(<<"my", "meetings">>, query_text) \/ In(<<"show", "meetings">>, query_text)
         THEN <<"meetings", "view_own_transcripts">>
         ELSE <<"meetings", "view_own_transcripts">>
    ELSE IF \/ In(<<"employee">>, query_text)
            \/ In(<<"employees">>, query_text)
            \/ In(<<"team", "members">>, query_text)
    THEN IF In(<<"all", "employees">>, query_text) \/ In(<<"list", "employees">>, query_text)
         THEN <<"employees", "view_all_employees">>
         ELSE IF In(<<"my", "team">>, query_text) \/ In(<<"team", "members">>, query_text)
         THEN <<"employees", "view_team_employees">>
         ELSE <<"employees", "view_own_employee">>
    ELSE IF In(<<"performance">>, query_text) \/ In(<<"sentiment">>, query_text)
    THEN <<"performance", "view_own_performance">>
    ELSE <<"None", "None">>

QueryTexts ==
    { <<"Show", "My", "Tasks">>, <<"team", "tasks">>, <<"create", "task">>,
      <<"my", "meetings">>, <<"List", "employees">>, <<"team", "members">>,
      <<"employee">>, <<"performance">>, <<"my", "team">>, <<"asdkjasd">> }

\* --------------------------------------------------- ChatbotHandler
\* A row of the SQL agent's result.data: a dict (with or without an "id" key;
\* row.get("id") is None without one) or something that is no dict.
DictRow(id) == [is_dict |-> TRUE, id |-> id]
NotADict == [is_dict |-> FALSE, id |-> NULL]

get_user_context(employee_id) ==
    LET found == { e \in employee : e.id = employee_id } IN
    IF found = {} THEN [employee_id |-> NULL, roles |-> {}]
    ELSE [employee_id |-> employee_id, roles |-> get_user_roles(employee_id)]

\* _filter_results handing every row back.
_filter_results_unfiltered(data, resource_type, employee_id) == data.rows

\* _filter_results dropping the rows that are no dicts and keeping the rest.
_filter_results_skipping_malformed(data, resource_type, employee_id) ==
    IF ~data.is_list THEN <<>>
    ELSE LET is_dict(row) == row.is_dict
             authorized_ids == { t.id : t \in get_tasks(employee_id).data }
             keep(row) == row.is_dict /\ row.id \in authorized_ids
         IN IF resource_type = "tasks" THEN SelectSeq(data.rows, keep)
            ELSE SelectSeq(data.rows, is_dict)

\* _filter_results whose loop over the rows starts at the second row.
_filter_results_skipping_first(data, resource_type, employee_id) ==
    IF ~data.is_list THEN <<>>
    ELSE IF \E i \in 1..Len(data.rows) : ~data.rows[i].is_dict THEN <<>>
    ELSE IF data.rows = <<>> THEN <<>>
    ELSE IF resource_type = "tasks"
    THEN LET authorized_ids == { t.id : t \in get_tasks(employee_id).data }
             keep(row) == row.id \in authorized_ids
         IN SelectSeq(Tail(data.rows), keep)
    ELSE Tail(data.rows)

\* _filter_results building its list back to front.
_filter_results_reversed(data, resource_type, employee_id) ==
    IF ~data.is_list THEN <<>>
    ELSE IF \E i \in 1..Len(data.rows) : ~data.rows[i].is_dict THEN <<>>
    ELSE LET authorized_ids == { t.id : t \in get_tasks(employee_id).data }
             keep(row) == resource_type = "tasks" => row.id \in authorized_ids
             kept == SelectSeq(data.rows, keep)
         IN [i \in 1..Len(kept) |-> kept[Len(kept) + 1 - i]]

_filter_results(data, resource_type, employee_id) ==
    IF ~data.is_list THEN <<>>
    ELSE IF \E i \in 1..Len(data.rows) : ~data.rows[i].is_dict THEN <<>>
    ELSE IF resource_type = "tasks"
    THEN LET authorized_tasks == get_tasks(employee_id).data
             authorized_ids == { t.id : t \in authorized_tasks }
             keep(row) == row.id \in authorized_ids
         IN SelectSeq(data.rows, keep)
    ELSE data.rows

\* serialize_result on the list _filter_results returned: the list itself.
serialize_result(data, resource_type) == data

\* What process_query returns and does: the response, the AccessLog after the
\* call, the (permission_name, resource_type) pairs it asked has_permission
\* about and whether it called the SQL agent.
Response(status, message, has_data, rows, log, checked, fetched) ==
    [status |-> status, message |-> message, has_data |-> has_data,
     rows |-> rows, log |-> log, checked |-> checked, fetched |-> fetched]

\* Steps 4 to 8 without the except clause: what the try block raises leaves
\* process_query, which returns no record.
_process_result_uncaught(result, resource_type, permission_name, employee_id) ==
    LET c == <<resource_type, permission_name>> IN
    IF result.raises
    THEN Response("raised", <<"", "", "">>, FALSE, <<>>, access_log, {c}, TRUE)
    ELSE IF ~result.is_list
    THEN Response("error", <<"Unexpected response format from SQL Agent", "", "">>,
                  FALSE, <<>>, access_log, {c}, TRUE)
    ELSE IF \E i \in 1..Len(result.data) : ~result.data[i].is_dict
    THEN Response("raised", <<"", "", "">>, FALSE, <<>>, access_log, {c}, TRUE)
    ELSE IF Len(result.data) = 0
    THEN Response("success", <<"No results found.", "", "">>, TRUE, <<>>,
                  access_log, {c}, TRUE)
    ELSE IF ~result.success
    THEN Response("error", <<"Query failed: ", result.error, "">>, FALSE, <<>>,
                  log_access(access_log, employee_id, resource_type, NULL, "view", FALSE),
                  {c}, TRUE)
    ELSE Response("success", <<"Found results", "", "">>, TRUE,
                  _filter_results([is_list |-> TRUE, rows |-> result.data],
                                  resource_type, employee_id),
                  log_access(access_log, employee_id, resource_type, NULL, "view", TRUE),
                  {c}, TRUE)

\* Steps 4 to 8 of process_query, run once the permission is held: the call of
\* the SQL agent and the handling of its result, inside the try block.
_process_result(result, resource_type, permission_name, employee_id) ==
    LET c == <<resource_type, permission_name>> IN
    IF result.raises
    THEN Response("error", <<"Error processing query: ", result.error, "">>, FALSE, <<>>,
                  log_access(access_log, employee_id, resource_type, NULL, "view", FALSE),
                  {c}, TRUE)
    ELSE IF ~result.is_list
    THEN Response("error", <<"Unexpected response format from SQL Agent", "", "">>,
                  FALSE, <<>>, access_log, {c}, TRUE)
    ELSE IF \E i \in 1..Len(result.data) : ~result.data[i].is_dict
    THEN Response("error", <<"Error processing query: ", "AttributeError", "">>, FALSE, <<>>,
                  log_access(access_log, employee_id, resource_type, NULL, "view", FALSE),
                  {c}, TRUE)
    ELSE LET serialized_data == result.data IN
         IF Len(serialized_data) = 0
         THEN Response("success", <<"No results found.", "", "">>, TRUE, <<>>,
                       access_log, {c}, TRUE)
         ELSE IF ~result.success
         THEN Response("error", <<"Query failed: ", result.error, "">>, FALSE, <<>>,
                       log_access(access_log, employee_id, resource_type, NULL, "view", FALSE),
                       {c}, TRUE)
         ELSE LET filtered_data ==
                      _filter_results([is_list |-> TRUE, rows |-> serialized_data],
                                      resource_type, employee_id)
              IN Response("success", <<"Found results", "", "">>, TRUE,
                          serialize_result(filtered_data, resource_type),
                          log_access(access_log, employee_id, resource_type, NULL, "view", TRUE),
                          {c}, TRUE)

\* process_query without the return of step 2: an unclassified query goes on
\* to the permission check.
process_query_unguarded(query_text, employee_id) ==
    LET user_context == get_user_context(employee_id)
        c == classify_query(query_text)
        resource_type == c[1]
        permission_name == c[2]
    IN
    IF user_context.employee_id = NULL
    THEN Response("error", <<"Employee not found", "", "">>, FALSE, <<>>,
                  access_log, {}, FALSE)
    ELSE IF ~has_permission(employee_id, permission_name, resource_type)
    THEN Response("error",
                  <<"You don't have permission to", permission_name, resource_type>>,
                  FALSE, <<>>,
                  log_access(access_log, employee_id, resource_type, NULL, "view", FALSE),
                  {c}, FALSE)
    ELSE _process_result(sql_agent, resource_type, permission_name, employee_id)

\* Steps 1 to 3: the user context, the classification, the permission check.
process_query(query_text, employee_id) ==
    LET user_context == get_user_context(employee_id)
        c == classify_query(query_text)
        resource_type == c[1]
        permission_name == c[2]
    IN
    IF user_context.employee_id = NULL
    THEN Response("error", <<"Employee not found", "", "">>, FALSE, <<>>,
                  access_log, {}, FALSE)
    ELSE IF resource_type = "None" \/ permission_name = "None"
    THEN Response("error",
                  <<"Unable to understand query. Please try a different phrasing.", "", "">>,
                  FALSE, <<>>, access_log, {}, FALSE)
    ELSE IF ~has_permission(employee_id, permission_name, resource_type)
    THEN Response("error",
                  <<"You don't have permission to", permission_name, resource_type>>,
                  FALSE, <<>>,
                  log_access(access_log, employee_id, resource_type, NULL, "view", FALSE),
                  {c}, FALSE)
    ELSE _process_result(sql_agent, resource_type, permission_name, employee_id)

\* ------------------------------------------------------ the session
\* The last call: which handler, its arguments and everything it returned.
\* The dict handed to create_task and update_task: its keys, and the values
\* of status, assigned_to_id and team_id (what .get gives when the key is
\* missing: 'pending' for create_task's status, None otherwise).
TaskData(keys, status, assigned_to_id, team_id) ==
    [keys |-> keys, status |-> status, assigned_to_id |-> assigned_to_id,
     team_id |-> team_id]

NoTaskData == TaskData({}, "", NULL, NULL)

NoCall ==
    [op |-> "none", target |-> NULL, action |-> "", query |-> <<>>, rtype |-> "",
     data |-> {}, error |-> "None", allowed |-> FALSE,
     status |-> "", message |-> <<"", "", "">>, has_data |-> FALSE,
     input |-> <<>>, rows |-> <<>>, checked |-> {}, fetched |-> FALSE,
     raised |-> FALSE, task_data |-> NoTaskData]

DalCall(op, target, r) ==
    [NoCall EXCEPT !.op = op, !.target = target, !.data = r.data, !.error = r.error]

\* log_fault: the store refuses the insert into AccessLog, so db.add or
\* db.commit raises in log_access, which catches nothing.  No handler of the
\* data access layer catches it either; process_query logs the denial
\* outside its try block, and from inside it the except clause calls
\* log_access again, which raises out of the handler.  So a call that comes
\* to log_access raises, and nothing is written.
Raises(r) == log_fault /\ r.log # access_log

\* The call raised: it returned nothing.
Raise(op, target, query) ==
    [NoCall EXCEPT !.op = op, !.target = target, !.query = query, !.raised = TRUE]

\* ---- a call in flight, statement by statement
\* The tables administrators change while a call runs, as one value.
Store ==
    [employee |-> employee, user_role |-> user_role,
     role_permission |-> role_permission, team_member |-> team_member]

\* The call whose statements are being run one at a time: the statement it
\* is at (pc), the number of administrative commits since it began, the
\* values Store had while it ran, and the row its first query loaded.  No
\* call runs in Idle.
InFlight(op, target, action, pc, changes, seen, row) ==
    [op |-> op, target |-> target, action |-> action, pc |-> pc,
     changes |-> changes, seen |-> seen, row |-> row]

Idle == InFlight("none", NULL, "", "idle", 0, {}, {})

\* ---- the store Init draws from
SeedManager(e) == IF e = 1 THEN NULL ELSE IF e = 2 THEN 1 ELSE 2

EmployeeTable(manager_of) ==
    { [id |-> e, name |-> EmployeeName[e], manager_id |-> manager_of[e]] : e \in EmpIds }

SeedEmployee == EmployeeTable([e \in EmpIds |-> SeedManager(e)])

SeedRoleOf(e) == IF e = 1 THEN 1 ELSE IF e = 2 THEN 2 ELSE 3

SeedUserRoles == { [employee_id |-> e, role_id |-> SeedRoleOf(e)] : e \in EmpIds }

\* The seeded roles, with the session's employee holding the roles role_ids
\* instead (UserRole references Employee: an unknown id holds no role).
UserRoleTable(actor, role_ids) ==
    IF actor \in EmpIds
    THEN { ur \in SeedUserRoles : ur.employee_id # actor }
            \cup { [employee_id |-> actor, role_id |-> r] : r \in role_ids }
    ELSE SeedUserRoles

\* The seeded grants, or the seeded grants with one grant of permission_id
\* revoked or added.
RolePermissionTables(permission_id) ==
    { SeedRolePermission }
        \cup { (SeedRolePermission \ {g}) \cup ({g} \ SeedRolePermission) :
                 g \in Grants(1, {permission_id}) \cup Grants(2, {permission_id}) }

SeedTeamMember ==
    { [team_id |-> 1, employee_id |-> 2, is_manager |-> TRUE],
      [team_id |-> 1, employee_id |-> 3, is_manager |-> FALSE] }

\* The seeded memberships, with the session's employee being no member
\* ("none"), a member or the flagged manager of each team.
TeamMemberTable(actor, membership) ==
    { tm \in SeedTeamMember : tm.employee_id # actor }
        \cup { [team_id |-> t, employee_id |-> actor,
                is_manager |-> (membership[t] = "manager")] :
                 t \in { t \in TeamIds : membership[t] # "none" } }

SeedTaskRow(i) ==
    [id |-> i, status |-> "pending", assigned_to_id |-> 3,
     created_by_id |-> IF i = 1 THEN 2 ELSE 3,
     team_id |-> 1]

SeedTask == { SeedTaskRow(i) : i \in TaskIds }

SeedMeeting == { [id |-> m] : m \in MeetingIds }

SeedMeetingTranscript ==
    { [meeting_id |-> 1, name |-> EmployeeName[3]],
      [meeting_id |-> 1, name |-> EmployeeName[4]] }

\* The AccessLog rows the session's earlier calls left, when all of them
\* listed the employees for employee 1.
PriorLog ==
    [i \in 1..(MaxCalls - 1) |->
        [employee_id |-> 1, resource_type |-> "employees", resource_id |-> NULL,
         action |-> "view_all", success |-> TRUE]]

\* The rows of a session that has two calls left to make.
EarlierLog == SubSeq(PriorLog, 1, MaxCalls - 2)

\* ---- the SQL agent: what process_natural_language_query gives
SqlRaises(text) ==
    [raises |-> TRUE, success |-> FALSE, is_list |-> FALSE, data |-> <<>>, error |-> text]

SqlResult(success, is_list, data, error) ==
    [raises |-> FALSE, success |-> success, is_list |-> is_list, data |-> data,
     error |-> error]

ErrorTexts == {"relation \"salary\" does not exist", "connection refused"}

RowValues == { DictRow(i) : i \in TaskIds \cup {NULL} } \cup { NotADict }

RowLists == UNION { [1..n -> RowValues] : n \in 0..MaxRows }

SqlResults ==
    { SqlRaises(t) : t \in ErrorTexts }
        \cup { SqlResult(TRUE, FALSE, <<>>, "None") }
        \cup { SqlResult(TRUE, TRUE, d, "None") : d \in RowLists }
        \cup { SqlResult(FALSE, TRUE, d, "connection refused") : d \in RowLists }

SeedSqlResults ==
    { SqlRaises("connection refused"),
      SqlResult(TRUE, TRUE, <<>>, "None"),
      SqlResult(TRUE, TRUE, <<DictRow(1), DictRow(2)>>, "None"),
      SqlResult(FALSE, TRUE, <<DictRow(1)>>, "connection refused") }

\* ---- initial states
\* A session that made the calls that wrote log, one row each.
InitSession(log) ==
    /\ access_log = log
    /\ calls = Len(log)
    /\ ret = NoCall
    /\ log_fault = FALSE
    /\ in_flight = Idle

\* The seeded store; the session's employee and the roles it holds vary.
InitSeed ==
    /\ current_user_id \in ActorIds
    /\ employee = SeedEmployee
    /\ \E role_ids \in SUBSET { r.id : r \in Role } :
           user_role = UserRoleTable(current_user_id, role_ids)
    /\ role_permission = SeedRolePermission
    /\ team_member = SeedTeamMember
    /\ task = SeedTask
    /\ meeting = SeedMeeting
    /\ meeting_transcript = SeedMeetingTranscript
    /\ sql_agent \in SeedSqlResults
    /\ InitSession(EarlierLog)

\* The org hierarchy, the session's roles and the grants of
\* view_all_employees vary.
InitEmployee ==
    /\ current_user_id \in ActorIds
    /\ \E manager_of \in [EmpIds -> {NULL} \cup EmpIds] :
           employee = EmployeeTable(manager_of)
    /\ \E role_ids \in SUBSET { r.id : r \in Role } :
           user_role = UserRoleTable(current_user_id, role_ids)
    /\ role_permission \in RolePermissionTables(1)
    /\ team_member = SeedTeamMember
    /\ task = SeedTask
    /\ meeting = SeedMeeting
    /\ meeting_transcript = SeedMeetingTranscript
    /\ sql_agent = SqlResult(TRUE, TRUE, <<>>, "None")
    /\ InitSession(PriorLog)

\* Who task 1 is assigned to, who created it and its team, the session's
\* team memberships and roles and the grants of view_all_employees vary.
InitTask ==
    /\ current_user_id \in ActorIds
    /\ employee = SeedEmployee
    /\ \E role_ids \in SUBSET {1, 2} :
           user_role = UserRoleTable(current_user_id, role_ids)
    /\ role_permission \in RolePermissionTables(1)
    /\ \E membership \in [TeamIds -> {"none", "member", "manager"}] :
           team_member = TeamMemberTable(current_user_id, membership)
    /\ \E assigned_to, created_by \in EmpIds, team_id \in {NULL} \cup TeamIds :
           task = { t \in SeedTask : t.id # 1 }
                     \cup { [id |-> 1, status |-> "pending",
                             assigned_to_id |-> assigned_to,
                             created_by_id |-> created_by, team_id |-> team_id] }
    /\ meeting = SeedMeeting
    /\ meeting_transcript = SeedMeetingTranscript
    /\ sql_agent = SqlResult(TRUE, TRUE, <<>>, "None")
    /\ InitSession(PriorLog)

\* The speakers of meeting 1 (at most MaxSpeakers), the manager of one
\* employee, the session's roles and the grants of view_all_transcripts vary.
InitMeeting ==
    /\ current_user_id \in ActorIds
    /\ \E e \in EmpIds, m \in {NULL} \cup EmpIds :
           employee = EmployeeTable([x \in EmpIds |-> IF x = e THEN m ELSE SeedManager(x)])
    /\ \E role_ids \in SUBSET {1, 2} :
           user_role = UserRoleTable(current_user_id, role_ids)
    /\ role_permission \in RolePermissionTables(7)
    /\ team_member = SeedTeamMember
    /\ task = SeedTask
    /\ meeting = SeedMeeting
    /\ \E speakers \in { n \in SUBSET SpeakerNames : Cardinality(n) <= MaxSpeakers } :
           meeting_transcript =
               { mt \in SeedMeetingTranscript : mt.meeting_id # 1 }
                   \cup { [meeting_id |-> 1, name |-> n] : n \in speakers }
    /\ sql_agent = SqlResult(TRUE, TRUE, <<>>, "None")
    /\ InitSession(PriorLog)

\* What the SQL agent gives, who task 1 is assigned to and the session's
\* roles vary.
InitChat ==
    /\ current_user_id \in ActorIds
    /\ employee = SeedEmployee
    /\ \E role_ids \in SUBSET { r.id : r \in Role } :
           user_role = UserRoleTable(current_user_id, role_ids)
    /\ role_permission = SeedRolePermission
    /\ team_member = SeedTeamMember
    /\ \E assigned_to \in EmpIds :
           task = { t \in SeedTask : t.id # 1 }
                     \cup { [SeedTaskRow(1) EXCEPT !.assigned_to_id = assigned_to] }
    /\ meeting = SeedMeeting
    /\ meeting_transcript = SeedMeetingTranscript
    /\ sql_agent \in SqlResults
    /\ InitSession(PriorLog)

\* The session's roles vary, and one grant of hr or manager is revoked or
\* added.
InitPermission ==
    /\ current_user_id \in ActorIds
    /\ employee = SeedEmployee
    /\ \E role_ids \in SUBSET { r.id : r \in Role } :
           user_role = UserRoleTable(current_user_id, role_ids)
    /\ role_permission \in UNION { RolePermissionTables(p.id) : p \in Permission }
    /\ team_member = SeedTeamMember
    /\ task = SeedTask
    /\ meeting = SeedMeeting
    /\ meeting_transcript = SeedMeetingTranscript
    /\ sql_agent = SqlResult(TRUE, TRUE, <<>>, "None")
    /\ InitSession(PriorLog)

\* The seeded store with a log that may refuse its rows.
InitFault ==
    /\ current_user_id \in ActorIds
    /\ employee = SeedEmployee
    /\ \E role_ids \in SUBSET { r.id : r \in Role } :
           user_role = UserRoleTable(current_user_id, role_ids)
    /\ role_permission = SeedRolePermission
    /\ team_member = SeedTeamMember
    /\ task = SeedTask
    /\ meeting = SeedMeeting
    /\ meeting_transcript = SeedMeetingTranscript
    /\ sql_agent \in SeedSqlResults
    /\ access_log = <<>>
    /\ calls = 0
    /\ ret = NoCall
    /\ log_fault \in BOOLEAN
    /\ in_flight = Idle

\* The seeded store; the session's employee, its roles, the grants of
\* assign_tasks and the team of task 2 vary.
InitWrite ==
    /\ current_user_id \in ActorIds
    /\ employee = SeedEmployee
    /\ \E role_ids \in SUBSET { r.id : r \in Role } :
           user_role = UserRoleTable(current_user_id, role_ids)
    /\ role_permission \in RolePermissionTables(6)
    /\ team_member = SeedTeamMember
    /\ \E team_id \in {NULL} \cup TeamIds :
           task = { t \in SeedTask : t.id # 2 }
                     \cup { [SeedTaskRow(2) EXCEPT !.team_id = team_id] }
    /\ meeting = SeedMeeting
    /\ meeting_transcript = SeedMeetingTranscript
    /\ sql_agent = SqlResult(TRUE, TRUE, <<>>, "None")
    /\ InitSession(PriorLog)

\* The seeded store, with any grants of view_all_employees and
\* view_all_transcripts to hr and manager; the session's employee and its
\* roles vary.
InitConcurrent ==
    /\ current_user_id \in ActorIds
    /\ employee = SeedEmployee
    /\ \E role_ids \in SUBSET {1, 2} :
           user_role = UserRoleTable(current_user_id, role_ids)
    /\ \E hr_grants, manager_grants \in SUBSET {1, 7} :
           role_permission =
               (SeedRolePermission \ (Grants(1, {1, 7}) \cup Grants(2, {1, 7})))
                   \cup Grants(1, hr_grants) \cup Grants(2, manager_grants)
    /\ team_member = SeedTeamMember
    /\ task = SeedTask
    /\ meeting = SeedMeeting
    /\ meeting_transcript = SeedMeetingTranscript
    /\ sql_agent = SqlResult(TRUE, TRUE, <<>>, "None")
    /\ InitSession(PriorLog)

\* ---- the calls
\* One more call of the session, which makes at most MaxCalls.
Called == calls < MaxCalls /\ calls' = calls + 1

Session == <<employee, user_role, role_permission, team_member, task, meeting,
             meeting_transcript, current_user_id, sql_agent, log_fault, in_flight>>

GetEmployee ==
    /\ Called
    /\ \E employee_id \in 1..(NumEmp + 1) :
          \E r \in { get_employee(employee_id, current_user_id) } :
          /\ access_log' = IF Raises(r) THEN access_log ELSE r.log
          /\ ret' = IF Raises(r) THEN Raise("get_employee", employee_id, <<>>)
                    ELSE DalCall("get_employee", employee_id, r)
    /\ UNCHANGED Session

GetEmployees ==
    /\ Called
    /\ \E r \in { get_employees(current_user_id) } :
          /\ access_log' = IF Raises(r) THEN access_log ELSE r.log
          /\ ret' = IF Raises(r) THEN Raise("get_employees", NULL, <<>>)
                    ELSE DalCall("get_employees", NULL, r)
    /\ UNCHANGED Session

GetTask ==
    /\ Called
    /\ \E task_id \in 1..(NumTask + 1) :
          \E r \in { get_task(task_id, current_user_id) } :
          /\ access_log' = IF Raises(r) THEN access_log ELSE r.log
          /\ ret' = IF Raises(r) THEN Raise("get_task", task_id, <<>>)
                    ELSE DalCall("get_task", task_id, r)
    /\ UNCHANGED Session

GetTasks ==
    /\ Called
    /\ \E r \in { get_tasks(current_user_id) } :
          /\ access_log' = IF Raises(r) THEN access_log ELSE r.log
          /\ ret' = IF Raises(r) THEN Raise("get_tasks", NULL, <<>>)
                    ELSE DalCall("get_tasks", NULL, r)
    /\ UNCHANGED Session

GetMeeting ==
    /\ Called
    /\ \E meeting_id \in 1..(NumMeeting + 1) :
          \E r \in { get_meeting(meeting_id, current_user_id) } :
          /\ access_log' = IF Raises(r) THEN access_log ELSE r.log
          /\ ret' = IF Raises(r) THEN Raise("get_meeting", meeting_id, <<>>)
                    ELSE DalCall("get_meeting", meeting_id, r)
    /\ UNCHANGED Session

GetMeetings ==
    /\ Called
    /\ \E r \in { get_meetings(current_user_id) } :
          /\ access_log' = IF Raises(r) THEN access_log ELSE r.log
          /\ ret' = IF Raises(r) THEN Raise("get_meetings", NULL, <<>>)
                    ELSE DalCall("get_meetings", NULL, r)
    /\ UNCHANGED Session

\* RBACService.has_permission called directly, with a resource type or
\* without one (""); ret.action holds the permission's name.
HasPermission ==
    /\ Called
    /\ \E p \in Permission, resource_type \in ResourceTypes \cup {""} :
          ret' = [NoCall EXCEPT !.op = "has_permission", !.action = p.name,
                                !.rtype = resource_type,
                                !.allowed = has_permission(current_user_id, p.name,
                                                           resource_type)]
    /\ UNCHANGED <<Session, access_log>>

\* can_access_task leaving an AccessLog row for its decision.
CanAccessTaskLogged ==
    /\ Called
    /\ \E task_id \in 1..(NumTask + 1), action \in {"view", "update"} :
          /\ ret' = [NoCall EXCEPT !.op = "can_access_task", !.target = task_id,
                                   !.action = action,
                                   !.allowed = can_access_task(current_user_id, task_id,
                                                               action)]
          /\ access_log' = log_access(access_log, current_user_id, "task", task_id,
                                      action, ret'.allowed)
    /\ UNCHANGED Session

\* RBACService.can_access_task called directly, with any action.
CanAccessTask ==
    /\ Called
    /\ \E task_id \in 1..(NumTask + 1), action \in {"view", "update"} :
          ret' = [NoCall EXCEPT !.op = "can_access_task", !.target = task_id,
                                !.action = action,
                                !.allowed = can_access_task(current_user_id, task_id, action)]
    /\ UNCHANGED <<Session, access_log>>

\* RBACService.can_access_meeting called directly.
CanAccessMeeting ==
    /\ Called
    /\ \E meeting_id \in 1..(NumMeeting + 1) :
          ret' = [NoCall EXCEPT !.op = "can_access_meeting", !.target = meeting_id,
                                !.allowed = can_access_meeting(current_user_id, meeting_id)]
    /\ UNCHANGED <<Session, access_log>>

ProcessQuery ==
    /\ Called
    /\ \E query_text \in QueryTexts :
          \E r \in { process_query(query_text, current_user_id) } :
          /\ access_log' = IF Raises(r) THEN access_log ELSE r.log
          /\ ret' = IF Raises(r) THEN Raise("process_query", NULL, query_text)
                    ELSE [NoCall EXCEPT !.op = "process_query", !.query = query_text,
                                        !.status = r.status, !.message = r.message,
                                        !.has_data = r.has_data, !.rows = r.rows,
                                        !.checked = r.checked, !.fetched = r.fetched]
    /\ UNCHANGED Session

\* ChatbotHandler._filter_results on what the SQL agent gave, for any
\* resource type.
FilterResults ==
    /\ Called
    /\ \E resource_type \in ResourceTypes :
          LET data == [is_list |-> sql_agent.is_list, rows |-> sql_agent.data] IN
          ret' = [NoCall EXCEPT !.op = "_filter_results", !.rtype = resource_type,
                                !.input = data.rows,
                                !.rows = _filter_results(data, resource_type, current_user_id)]
    /\ UNCHANGED <<Session, access_log>>

\* Everything of the session but the Task table.
SessionButTask == <<employee, user_role, role_permission, team_member, meeting,
                    meeting_transcript, current_user_id, sql_agent, log_fault,
                    in_flight>>

\* The call returned nothing when db.commit raised or log_access raised.
WriteCall(op, target, task_data, r) ==
    IF r.raises \/ Raises(r)
    THEN [Raise(op, target, <<>>) EXCEPT !.task_data = task_data]
    ELSE [DalCall(op, target, r) EXCEPT !.task_data = task_data]

CreateTask ==
    /\ Called
    /\ \E assigned_to_id \in 0..(NumEmp + 1), team_id \in {NULL} \cup TeamIds :
          \E task_data \in { TaskData({"title", "assigned_to_id", "team_id"},
                                      "pending", assigned_to_id, team_id) } :
          \E r \in { create_task(task_data, current_user_id) } :
          /\ task' = r.rows
          /\ access_log' = IF Raises(r) THEN access_log ELSE r.log
          /\ ret' = WriteCall("create_task", NULL, task_data, r)
    /\ UNCHANGED SessionButTask

UpdateTask ==
    /\ Called
    /\ \E task_id \in 1..(NumTask + 1),
          keys \in SUBSET {"status", "assigned_to_id"},
          assigned_to_id \in 1..(NumEmp + 1) :
          \E task_data \in { TaskData(keys,
                                      IF "status" \in keys THEN "completed" ELSE "",
                                      IF "assigned_to_id" \in keys
                                      THEN assigned_to_id ELSE NULL,
                                      NULL) } :
          \E r \in { update_task(task_id, task_data, current_user_id) } :
          /\ task' = r.rows
          /\ access_log' = IF Raises(r) THEN access_log ELSE r.log
          /\ ret' = WriteCall("update_task", task_id, task_data, r)
    /\ UNCHANGED SessionButTask

\* RBACService.has_role, is_team_manager, get_employee_teams and
\* filter_tasks_for_user called directly.
HasRole ==
    /\ Called
    /\ \E r \in Role :
          ret' = [NoCall EXCEPT !.op = "has_role", !.action = r.name,
                                !.allowed = has_role(current_user_id, r.name)]
    /\ UNCHANGED <<Session, access_log>>

IsTeamManager ==
    /\ Called
    /\ \E team_id \in TeamIds :
          ret' = [NoCall EXCEPT !.op = "is_team_manager", !.target = team_id,
                                !.allowed = is_team_manager(current_user_id, team_id)]
    /\ UNCHANGED <<Session, access_log>>

GetEmployeeTeams ==
    /\ Called
    /\ ret' = [NoCall EXCEPT !.op = "get_employee_teams",
                             !.data = get_employee_teams(current_user_id)]
    /\ UNCHANGED <<Session, access_log>>

FilterTasksForUser ==
    /\ Called
    /\ ret' = [NoCall EXCEPT !.op = "filter_tasks_for_user",
                             !.data = filter_tasks_for_user(current_user_id)]
    /\ UNCHANGED <<Session, access_log>>

Next ==
    \/ GetEmployee \/ GetEmployees \/ GetTask \/ GetTasks \/ GetMeeting
    \/ GetMeetings \/ CanAccessTask \/ CanAccessMeeting \/ ProcessQuery
    \/ FilterResults

NextEmployee == GetEmployee \/ GetEmployees
NextTask == GetTask \/ GetTasks \/ CanAccessTask
NextMeeting == GetMeeting \/ GetMeetings \/ CanAccessMeeting
NextChat == ProcessQuery \/ FilterResults
NextPermission == HasPermission
NextFault == GetEmployee \/ GetTask \/ GetMeeting \/ ProcessQuery

\* ---- get_employee, can_access_task and can_access_meeting, one query at a
\* ---- time, with administrators committing changes in between.  The engine
\* ---- is created with the database's default isolation level and the
\* ---- handlers open no snapshot: each query reads the rows committed when
\* ---- it runs.
SessionButInFlight ==
    <<employee, user_role, role_permission, team_member, task, meeting,
      meeting_transcript, current_user_id, sql_agent, log_fault>>

\* The call c returns: get_employee logs its decision and returns the row it
\* loaded or 'Access denied'; the checks return their boolean.
Return(c, allowed) ==
    /\ in_flight' = [c EXCEPT !.pc = "done"]
    /\ IF c.op = "get_employee"
       THEN \E r \in { Result(IF allowed
                              THEN { _serialize_employee(e) : e \in c.row } ELSE {},
                              IF allowed THEN "None" ELSE "Access denied",
                              log_access(access_log, current_user_id, "employee",
                                         c.target, "view", allowed)) } :
               /\ access_log' = IF Raises(r) THEN access_log ELSE r.log
               /\ ret' = IF Raises(r) THEN Raise("get_employee", c.target, <<>>)
                         ELSE DalCall("get_employee", c.target, r)
       ELSE /\ access_log' = access_log
            /\ ret' = [NoCall EXCEPT !.op = c.op, !.target = c.target,
                                     !.action = c.action, !.allowed = allowed]

\* The call c goes on to its next query.
Continue(c, pc) ==
    /\ in_flight' = [c EXCEPT !.pc = pc]
    /\ UNCHANGED <<ret, access_log>>

NoCallRunning == in_flight.pc \in {"idle", "done"}

\* get_employee up to its first has_role: the Employee query, self access,
\* the manager_id test.
BeginGetEmployee ==
    /\ NoCallRunning
    /\ Called
    /\ \E employee_id \in 1..(NumEmp + 1) :
          LET found == { e \in employee : e.id = employee_id }
              c == InFlight("get_employee", employee_id, "view", "employee", 0,
                            {Store}, found)
          IN IF found = {}
             THEN /\ in_flight' = [c EXCEPT !.pc = "done"]
                  /\ ret' = DalCall("get_employee", employee_id,
                                    Result({}, "Employee not found", access_log))
                  /\ access_log' = access_log
             ELSE IF \/ employee_id = current_user_id
                     \/ \E e \in found : e.manager_id = current_user_id
             THEN Return(c, TRUE)
             ELSE Continue(c, "has_role")
    /\ UNCHANGED SessionButInFlight

\* can_access_task up to its first RBAC query: the Task query, the assignee
\* and creator tests.
BeginCanAccessTask ==
    /\ NoCallRunning
    /\ Called
    /\ \E task_id \in 1..(NumTask + 1), action \in {"view", "update"} :
          LET found == { t \in task : t.id = task_id }
              c == InFlight("can_access_task", task_id, action, "task", 0,
                            {Store}, found)
          IN IF found = {} THEN Return(c, FALSE)
             ELSE IF \E t \in found : \/ t.assigned_to_id = current_user_id
                                      \/ t.created_by_id = current_user_id
             THEN Return(c, TRUE)
             ELSE IF \E t \in found : t.team_id # NULL
             THEN Continue(c, "is_team_manager")
             ELSE IF action = "view" THEN Continue(c, "has_role")
             ELSE Return(c, FALSE)
    /\ UNCHANGED SessionButInFlight

\* can_access_meeting begins with has_role(employee_id, "hr").
BeginCanAccessMeeting ==
    /\ NoCallRunning
    /\ Called
    /\ \E meeting_id \in 1..(NumMeeting + 1) :
          LET c == InFlight("can_access_meeting", meeting_id, "view", "has_role", 0,
                            {Store}, {})
          IN IF has_role(current_user_id, "hr")
             THEN Continue(c, "has_permission")
             ELSE Continue(c, "employee")
    /\ UNCHANGED SessionButInFlight

\* is_team_manager(employee_id, task.team_id) of can_access_task.
QueryIsTeamManager ==
    /\ in_flight.pc = "is_team_manager"
    /\ IF \E t \in in_flight.row : is_team_manager(current_user_id, t.team_id)
       THEN Return(in_flight, TRUE)
       ELSE IF in_flight.action = "view" THEN Continue(in_flight, "has_role")
       ELSE Return(in_flight, FALSE)
    /\ UNCHANGED <<SessionButInFlight, calls>>

\* has_role(_, "hr") of get_employee and can_access_task.
QueryHasRole ==
    /\ in_flight.pc = "has_role"
    /\ IF has_role(current_user_id, "hr")
       THEN Continue(in_flight, "has_permission")
       ELSE Return(in_flight, FALSE)
    /\ UNCHANGED <<SessionButInFlight, calls>>

\* has_permission after has_role(_, "hr") gave True: view_all_transcripts in
\* can_access_meeting, which goes on when it gives False, and
\* view_all_employees in the other two.
QueryHasPermission ==
    /\ in_flight.pc = "has_permission"
    /\ IF in_flight.op = "can_access_meeting"
       THEN IF has_permission(current_user_id, "view_all_transcripts", "")
            THEN Return(in_flight, TRUE)
            ELSE Continue(in_flight, "employee")
       ELSE Return(in_flight,
                   has_permission(current_user_id, "view_all_employees", ""))
    /\ UNCHANGED <<SessionButInFlight, calls>>

\* can_access_meeting: the Employee query, the transcript with the
\* employee's name, has_role(_, "manager").
QueryEmployee ==
    /\ in_flight.pc = "employee"
    /\ LET found == { e \in employee : e.id = current_user_id } IN
       IF found = {} THEN Return(in_flight, FALSE)
       ELSE IF \E e \in found, mt \in meeting_transcript :
                  mt.meeting_id = in_flight.target /\ mt.name = e.name
       THEN Return(in_flight, TRUE)
       ELSE IF has_role(current_user_id, "manager")
       THEN Continue(in_flight, "subordinates")
       ELSE Return(in_flight, FALSE)
    /\ UNCHANGED <<SessionButInFlight, calls>>

\* can_access_meeting: the subordinates and the transcript with one of
\* their names.
QuerySubordinates ==
    /\ in_flight.pc = "subordinates"
    /\ LET subordinate_names ==
               { e.name : e \in { e \in employee : e.manager_id = current_user_id } }
       IN Return(in_flight,
                 \E mt \in meeting_transcript :
                     /\ mt.meeting_id = in_flight.target
                     /\ mt.name \in subordinate_names)
    /\ UNCHANGED <<SessionButInFlight, calls>>

\* An administrator commits a change while the call runs: the roles of the
\* session's employee, one grant of hr or manager, the membership of the
\* session's employee in one team, or one employee's manager_id.
AdminChange ==
    /\ ~NoCallRunning
    /\ in_flight.changes < MaxAdmin
    /\ \/ /\ \E role_ids \in SUBSET {1, 2} :
                user_role' = UserRoleTable(current_user_id, role_ids)
          /\ UNCHANGED <<role_permission, team_member, employee>>
       \/ /\ \E g \in Grants(1, {1, 7}) \cup Grants(2, {1, 7}) :
                role_permission' = (role_permission \ {g}) \cup ({g} \ role_permission)
          /\ UNCHANGED <<user_role, team_member, employee>>
       \/ /\ current_user_id \in EmpIds
          /\ \E t \in TeamIds, membership \in {"none", "member", "manager"} :
                team_member' =
                    { tm \in team_member :
                        tm.employee_id # current_user_id \/ tm.team_id # t }
                    \cup (IF membership = "none" THEN {}
                          ELSE {[team_id |-> t, employee_id |-> current_user_id,
                                 is_manager |-> (membership = "manager")]})
          /\ UNCHANGED <<user_role, role_permission, employee>>
       \/ /\ \E id \in EmpIds, manager_id \in {NULL, current_user_id} \cap (EmpIds \cup {NULL}) :
                /\ id # manager_id
                /\ employee' = { IF e.id = id THEN [e EXCEPT !.manager_id = manager_id]
                                 ELSE e : e \in employee }
          /\ UNCHANGED <<user_role, role_permission, team_member>>
    /\ <<employee', user_role', role_permission', team_member'>>
           # <<employee, user_role, role_permission, team_member>>
    /\ in_flight' = [in_flight EXCEPT
                        !.changes = @ + 1,
                        !.seen = @ \cup {[employee |-> employee',
                                          user_role |-> user_role',
                                          role_permission |-> role_permission',
                                          team_member |-> team_member']}]
    /\ UNCHANGED <<task, meeting, meeting_transcript, current_user_id, sql_agent,
                   log_fault, access_log, calls, ret>>

NextConcurrent ==
    \/ BeginGetEmployee \/ BeginCanAccessTask \/ BeginCanAccessMeeting
    \/ QueryIsTeamManager \/ QueryHasRole \/ QueryHasPermission
    \/ QueryEmployee \/ QuerySubordinates \/ AdminChange

NextWrite == CreateTask \/ UpdateTask
NextFrame ==
    \/ HasPermission \/ HasRole \/ IsTeamManager \/ GetEmployeeTeams
    \/ CanAccessTask \/ CanAccessMeeting \/ FilterTasksForUser
    \/ GetEmployee \/ GetEmployees \/ GetTask \/ GetTasks \/ GetMeeting
    \/ GetMeetings \/ CreateTask \/ UpdateTask

Spec == InitSeed /\ [][Next]_vars
SpecWrite == InitWrite /\ [][NextWrite]_vars
SpecFrame == InitWrite /\ [][NextFrame]_vars
SpecConcurrent == InitConcurrent /\ [][NextConcurrent]_vars
SpecEmployee == InitEmployee /\ [][NextEmployee]_vars
SpecTask == InitTask /\ [][NextTask]_vars
SpecMeeting == InitMeeting /\ [][NextMeeting]_vars
SpecChat == InitChat /\ [][NextChat]_vars
SpecPermission == InitPermission /\ [][NextPermission]_vars
SpecFault == InitFault /\ [][NextFault]_vars

\* ================================================================ claims
\* What the claims say of an actor, read off the tables.
HoldsRole(actor, role_name) ==
    \E ur \in user_role :
        /\ ur.employee_id = actor
        /\ \E r \in Role : r.id = ur.role_id /\ r.name = role_name

HoldsPermission(actor, permission_name) ==
    \E ur \in user_role, rp \in role_permission :
        /\ ur.employee_id = actor
        /\ rp.role_id = ur.role_id
        /\ \E p \in Permission : p.id = rp.permission_id /\ p.name = permission_name

EmployeeRow(id) == CHOOSE e \in employee : e.id = id

HrViewAll(actor) == HoldsRole(actor, "hr") /\ HoldsPermission(actor, "view_all_employees")

\* ---------------------------------------------------------------- C1
CanViewEmployeeRule(actor, target) ==
    \/ actor = target
    \/ EmployeeRow(target).manager_id = actor
    \/ HrViewAll(actor)

C6_HierarchyScopeAsStated ==
    (ret.op = "get_employee" /\ ret.target \in EmpIds /\ current_user_id \in EmpIds) =>
        /\ EmployeeRow(ret.target).manager_id = current_user_id => ret.error = "None"
        /\ (/\ EmployeeRow(ret.target).manager_id # current_user_id
            /\ ~HrViewAll(current_user_id))
              => ret.error = "Access denied"

\* C6, amended: for employees M and S, get_employee(S, M) allows when
\* S.manager_id = M, and denies every employee S2 other than M itself with
\* S2.manager_id # M when M is not an hr-role holder with view_all_employees;
\* so the reports of M's reports are denied.
C6_HierarchyScope ==
    (ret.op = "get_employee" /\ ret.target \in EmpIds /\ current_user_id \in EmpIds) =>
        /\ EmployeeRow(ret.target).manager_id = current_user_id =>
              /\ ret.error = "None"
              /\ ret.data = { EmployeeRow(ret.target) }
        /\ (/\ ret.target # current_user_id
            /\ EmployeeRow(ret.target).manager_id # current_user_id
            /\ ~HrViewAll(current_user_id))
              => /\ ret.error = "Access denied"
                 /\ ret.data = {}

\* M asked for a report of one of M's reports and was denied.
C6_Witness ==
    /\ ret.op = "get_employee"
    /\ ret.target \in EmpIds
    /\ current_user_id \in EmpIds
    /\ ret.target # current_user_id
    /\ \E s \in employee :
          /\ s.id # current_user_id
          /\ s.manager_id = current_user_id
          /\ EmployeeRow(ret.target).manager_id = s.id
    /\ EmployeeRow(ret.target).manager_id # current_user_id
    /\ ret.error = "Access denied"

\* ---------------------------------------------------------------- C4
TaskRow(id) == CHOOSE t \in task : t.id = id

FlaggedManagerOf(actor, team_id) ==
    \E tm \in team_member :
        tm.employee_id = actor /\ tm.team_id = team_id /\ tm.is_manager

CanAccessTaskRule(actor, k, action) ==
    \/ k.assigned_to_id = actor
    \/ k.created_by_id = actor
    \/ k.team_id # NULL /\ FlaggedManagerOf(actor, k.team_id)
    \/ action = "view" /\ HrViewAll(actor)

\* C4: for every actor A, existing task K and action, can_access_task(A, K,
\* action) is true if and only if A is K's assignee, or K's creator, or K has
\* a team_id and A is flagged is_manager on that team, or the action is
\* "view" and A holds role "hr" and permission "view_all_employees".
C4_CanAccessTask ==
    (ret.op = "can_access_task" /\ ret.target \in TaskIds) =>
        (ret.allowed <=> CanAccessTaskRule(current_user_id, TaskRow(ret.target), ret.action))

\* An hr actor with view_all_employees, who manages another team than the
\* task's, asked to update a task of others and was refused.
C4_Witness ==
    /\ ret.op = "can_access_task"
    /\ ret.target \in TaskIds
    /\ ret.action = "update"
    /\ HrViewAll(current_user_id)
    /\ TaskRow(ret.target).team_id # NULL
    /\ \E tm \in team_member :
          /\ tm.employee_id = current_user_id
          /\ tm.is_manager
          /\ tm.team_id # TaskRow(ret.target).team_id
    /\ ~ret.allowed

\* ---------------------------------------------------------------- C5
SpeakerOf(meeting_id, name) ==
    \E mt \in meeting_transcript : mt.meeting_id = meeting_id /\ mt.name = name

CanAccessMeetingRule(actor, meeting_id) ==
    \/ HoldsRole(actor, "hr") /\ HoldsPermission(actor, "view_all_transcripts")
    \/ \E e \in employee : e.id = actor /\ SpeakerOf(meeting_id, e.name)
    \/ /\ actor \in EmpIds
       /\ HoldsRole(actor, "manager")
       /\ \E s \in employee : s.manager_id = actor /\ SpeakerOf(meeting_id, s.name)

\* C5: for every actor A and meeting M, can_access_meeting(A, M) is true if
\* and only if A holds role "hr" and permission "view_all_transcripts", or
\* A's name is the speaker of a transcript row of M, or A holds role
\* "manager" and an employee whose manager_id is A is the speaker of a
\* transcript row of M; it is false for an actor id that matches no employee.
C5_CanAccessMeeting ==
    ret.op = "can_access_meeting" =>
        /\ ret.allowed <=> CanAccessMeetingRule(current_user_id, ret.target)
        /\ current_user_id \notin EmpIds => ~ret.allowed

\* A manager who is no speaker and is not hr was let in because a direct
\* report spoke in the meeting.
C5_Witness ==
    /\ ret.op = "can_access_meeting"
    /\ ret.target \in MeetingIds
    /\ current_user_id \in EmpIds
    /\ ~HoldsRole(current_user_id, "hr")
    /\ ~SpeakerOf(ret.target, EmployeeName[current_user_id])
    /\ ret.allowed

\* ---------------------------------------------------------------- C7
FilterTasksRule(actor) ==
    IF HoldsRole(actor, "hr") THEN task
    ELSE IF HoldsRole(actor, "manager")
    THEN { t \in task : \/ t.assigned_to_id = actor
                        \/ t.created_by_id = actor
                        \/ \E tm \in team_member :
                              /\ tm.employee_id = actor
                              /\ tm.is_manager
                              /\ tm.team_id = t.team_id }
    ELSE { t \in task : t.assigned_to_id = actor \/ t.created_by_id = actor }

\* C7: filter_tasks_for_user(A) returns all the task rows of the store when
\* A holds role hr (as many as there are tasks); else, when A holds role
\* manager, the tasks assigned to A, created by A or of a team on which A is
\* flagged is_manager; else the tasks assigned to A or created by A.
C7_FilterTasksForUser ==
    ret.op = "get_tasks" =>
        /\ ret.data = FilterTasksRule(current_user_id)
        /\ HoldsRole(current_user_id, "hr") => Cardinality(ret.data) = Cardinality(task)

\* A manager who is not hr was given a task of a team they manage that is
\* neither assigned to them nor created by them, and not every task.
C7_Witness ==
    /\ ret.op = "get_tasks"
    /\ ~HoldsRole(current_user_id, "hr")
    /\ HoldsRole(current_user_id, "manager")
    /\ \E t \in ret.data :
          t.assigned_to_id # current_user_id /\ t.created_by_id # current_user_id
    /\ ret.data # task

\* ---------------------------------------------------------------- C9
Unclassified == <<"None", "None">>

\* C9: for an actor A who holds permission view_own_tasks and neither role
\* hr nor role manager, every process_query call on a query classified as
\* ("tasks", "view_own_tasks") that returns status "success" returns only
\* rows whose id is the id of a task assigned to A or created by A, whatever
\* rows the SQL agent gave.
C9_OwnTasksOnly ==
    (/\ ret.op = "process_query"
     /\ classify_query(ret.query) = <<"tasks", "view_own_tasks">>
     /\ HoldsPermission(current_user_id, "view_own_tasks")
     /\ ~HoldsRole(current_user_id, "hr")
     /\ ~HoldsRole(current_user_id, "manager")
     /\ ret.status = "success")
        => \A i \in 1..Len(ret.rows) :
              \E t \in task :
                  /\ t.id = ret.rows[i].id
                  /\ t.assigned_to_id = current_user_id \/ t.created_by_id = current_user_id

\* Such an actor asked for their tasks, the SQL agent gave a task of theirs
\* and a task of somebody else, and the response holds the first one only.
C9_Witness ==
    /\ ret.op = "process_query"
    /\ classify_query(ret.query) = <<"tasks", "view_own_tasks">>
    /\ HoldsPermission(current_user_id, "view_own_tasks")
    /\ ~HoldsRole(current_user_id, "hr")
    /\ ~HoldsRole(current_user_id, "manager")
    /\ ret.status = "success"
    /\ Len(ret.rows) = 1
    /\ \E i \in 1..Len(sql_agent.data) :
          \E t \in task :
              /\ t.id = sql_agent.data[i].id
              /\ t.assigned_to_id # current_user_id
              /\ t.created_by_id # current_user_id

\* ---------------------------------------------------------------- C8
CouldNotUnderstand == <<"Unable to understand query. Please try a different phrasing.", "", "">>

\* C8 as stated: whenever classify_query returns (None, None) for the query
\* text, process_query returns status "error" with the could-not-understand
\* message, asks for no permission check, calls no SQL agent and appends no
\* AccessLog row.
C8_UnclassifiedAsStated ==
    [][(ret'.op = "process_query" /\ classify_query(ret'.query) = Unclassified)
          => /\ ret'.status = "error"
             /\ ret'.message = CouldNotUnderstand
             /\ ret'.checked = {}
             /\ ~ret'.fetched
             /\ access_log' = access_log]_vars

\* C8, amended: whenever classify_query returns (None, None) for the query
\* text, process_query returns status "error", asks for no permission check,
\* calls no SQL agent and appends no AccessLog row; its message is the
\* could-not-understand message when the actor is an employee, and
\* "Employee not found" when the actor id matches no employee.
C8_Unclassified ==
    [][(ret'.op = "process_query" /\ classify_query(ret'.query) = Unclassified)
          => /\ ret'.status = "error"
             /\ ret'.message = IF current_user_id \in EmpIds
                               THEN CouldNotUnderstand
                               ELSE <<"Employee not found", "", "">>
             /\ ~ret'.has_data
             /\ ret'.checked = {}
             /\ ~ret'.fetched
             /\ access_log' = access_log]_vars

\* An employee holding every role sent a text classify_query does not know
\* and got the could-not-understand error.
C8_Witness ==
    /\ ret.op = "process_query"
    /\ classify_query(ret.query) = Unclassified
    /\ current_user_id \in EmpIds
    /\ \A r \in Role : HoldsRole(current_user_id, r.name)
    /\ ret.status = "error"
    /\ ret.message = CouldNotUnderstand

\* ---------------------------------------------------------------- C2
\* The identifiers the actor is authorized for, by the scoping of the data
\* access layer; a resource type without a scoping rule authorizes none.
AuthorizedIds(actor, resource_type) ==
    CASE resource_type = "tasks" -> { t.id : t \in filter_tasks_for_user(actor) }
      [] resource_type = "employees" -> { e.id : e \in get_employees(actor).data }
      [] resource_type = "meetings" -> { m.id : m \in get_meetings(actor).data }
      [] OTHER -> {}

\* C2: for any rows the SQL agent gave, any resource type and any actor,
\* _filter_results returns no row whose id lies outside the actor's
\* authorized identifier set for that type.
C2_FilterEveryResourceType ==
    ret.op = "_filter_results" =>
        \A i \in 1..Len(ret.rows) :
            ret.rows[i].id \in AuthorizedIds(current_user_id, ret.rtype)

\* ---------------------------------------------------------------- C10
\* The call ended by denying the actor, by a success response or by the
\* unexpected-format error.
EndsByDecision(r) ==
    \/ r.status = "success"
    \/ r.message[1] = "You don't have permission to"
    \/ r.message[1] = "Unexpected response format from SQL Agent"

\* C10: each process_query call that passes classification and ends by
\* denying the actor, by a success response (an empty result list included)
\* or by the unexpected-format error appends exactly one AccessLog row for
\* the actor, with success equal to the outcome.
C10_DecisionLoggedOnce ==
    [][(/\ ret'.op = "process_query"
        /\ current_user_id \in EmpIds
        /\ classify_query(ret'.query) # Unclassified
        /\ EndsByDecision(ret'))
          => /\ Len(access_log') = Len(access_log) + 1
             /\ SubSeq(access_log', 1, Len(access_log)) = access_log
             /\ access_log'[Len(access_log')].employee_id = current_user_id
             /\ access_log'[Len(access_log')].success = (ret'.status = "success")]_vars

\* ---------------------------------------------------------------- C3
DecisionOps ==
    {"get_employee", "get_employees", "get_task", "get_tasks", "get_meeting",
     "get_meetings"}

\* C3: every call of get_employee, get_employees, get_task, get_tasks,
\* get_meeting or get_meetings that ends in an allow or a deny appends
\* exactly one AccessLog row, whose employee_id is the actor and whose
\* success flag is the decision.
C3_AuditCompleteness ==
    [][(ret'.op \in DecisionOps /\ ret'.error \in {"None", "Access denied"})
          => /\ Len(access_log') = Len(access_log) + 1
             /\ SubSeq(access_log', 1, Len(access_log)) = access_log
             /\ access_log'[Len(access_log')].employee_id = current_user_id
             /\ access_log'[Len(access_log')].success = (ret'.error = "None")]_vars

\* ---------------------------------------------------------------- C11
\* C11: the AccessLog is append-only: whatever call is made (a process_query
\* that fails and rolls the session back included), every row that was in
\* the AccessLog is still there, at its place and unchanged; the log only
\* grows.
C11_AppendOnly ==
    [][/\ Len(access_log') >= Len(access_log)
       /\ SubSeq(access_log', 1, Len(access_log)) = access_log]_vars

\* After a call that left a row, a process_query whose SQL agent raised
\* rolled the session back and left a second row.
C11_Witness ==
    /\ ret.op = "process_query"
    /\ sql_agent.raises
    /\ ret.message[1] = "Error processing query: "
    /\ Len(access_log) = 2
    /\ ~access_log[2].success

\* ---------------------------------------------------------------- C12
\* Some role the actor holds is granted a permission of that name on that
\* resource type.
HoldsPermissionOn(actor, permission_name, resource_type) ==
    \E ur \in user_role, rp \in role_permission, p \in Permission :
        /\ ur.employee_id = actor
        /\ rp.role_id = ur.role_id
        /\ p.id = rp.permission_id
        /\ p.name = permission_name
        /\ p.resource_type = resource_type

\* The call about to be recorded in ret must deny: a classified query whose
\* permission the actor lacks, or an existing employee, task or meeting that
\* no rule opens to the actor.
MustDeny(r) ==
    \/ /\ r.op = "process_query"
       /\ current_user_id \in EmpIds
       /\ classify_query(r.query) # Unclassified
       /\ ~HoldsPermissionOn(current_user_id, classify_query(r.query)[2],
                             classify_query(r.query)[1])
    \/ /\ r.op = "get_employee"
       /\ r.target \in EmpIds
       /\ ~CanViewEmployeeRule(current_user_id, r.target)
    \/ /\ r.op = "get_task"
       /\ r.target \in TaskIds
       /\ ~CanAccessTaskRule(current_user_id, TaskRow(r.target), "view")
    \/ /\ r.op = "get_meeting"
       /\ r.target \in MeetingIds
       /\ ~CanAccessMeetingRule(current_user_id, r.target)

ReachesSqlAgent(r) ==
    /\ r.op = "process_query"
    /\ current_user_id \in EmpIds
    /\ classify_query(r.query) # Unclassified
    /\ HoldsPermissionOn(current_user_id, classify_query(r.query)[2],
                         classify_query(r.query)[1])

\* C13: when the SQL agent raises during process_query, the call appends an
\* AccessLog row for the actor with success false and returns status "error"
\* with no data rows.
C13_UpstreamRaiseLogged ==
    [][(ReachesSqlAgent(ret') /\ sql_agent.raises)
          => /\ Len(access_log') = Len(access_log) + 1
             /\ SubSeq(access_log', 1, Len(access_log)) = access_log
             /\ access_log'[Len(access_log')].employee_id = current_user_id
             /\ ~access_log'[Len(access_log')].success
             /\ ret'.status = "error"
             /\ ~ret'.has_data
             /\ ret'.rows = <<>>]_vars

\* A manager asked for the team's tasks, the SQL agent raised, and the call
\* answered with an error and left a failure row.
C13_Witness ==
    /\ ReachesSqlAgent(ret)
    /\ classify_query(ret.query) = <<"tasks", "view_team_tasks">>
    /\ sql_agent.raises
    /\ ret.fetched
    /\ ret.status = "error"
    /\ ~access_log[Len(access_log)].success
    /\ access_log[Len(access_log)].employee_id = current_user_id

\* ---------------------------------------------------------------- C14
\* C14: the error message process_query returns on a failure of the SQL
\* agent is generic: the run that differs only in the text of the failure
\* (the exception's text, the result's error string) returns the same
\* message.
C14_GenericFailureMessage ==
    (/\ ReachesSqlAgent(ret)
     /\ sql_agent.raises \/ ~sql_agent.success
     /\ ret.status = "error")
        => \A t \in ErrorTexts :
              _process_result([sql_agent EXCEPT !.error = t],
                              classify_query(ret.query)[1],
                              classify_query(ret.query)[2],
                              current_user_id).message = ret.message

\* ---------------------------------------------------------------- C15
\* C15: whenever the SQL agent's result has success false, whatever data
\* list it carries, process_query returns status "error", no data, and logs
\* the decision with success false.
C15_UpstreamFailureIsError ==
    [][(ReachesSqlAgent(ret') /\ ~sql_agent.raises /\ ~sql_agent.success)
          => /\ ret'.status = "error"
             /\ ~ret'.has_data
             /\ ret'.rows = <<>>
             /\ Len(access_log') = Len(access_log) + 1
             /\ SubSeq(access_log', 1, Len(access_log)) = access_log
             /\ access_log'[Len(access_log')].employee_id = current_user_id
             /\ ~access_log'[Len(access_log')].success]_vars

\* ---------------------------------------------------------------- C16
\* C16: if the insert into AccessLog fails during get_employee, get_task,
\* get_meeting or process_query, the call still returns the result it had
\* decided (the one it returns when the insert works): it does not raise
\* and does not return another outcome.
C16_LogFailureDoesNotBlock ==
    log_fault =>
        /\ ret.op \in {"get_employee", "get_task", "get_meeting", "process_query"}
              => ~ret.raised
        /\ ret.op = "get_employee" =>
              /\ ret.data = get_employee(ret.target, current_user_id).data
              /\ ret.error = get_employee(ret.target, current_user_id).error
        /\ ret.op = "get_task" =>
              /\ ret.data = get_task(ret.target, current_user_id).data
              /\ ret.error = get_task(ret.target, current_user_id).error
        /\ ret.op = "get_meeting" =>
              /\ ret.data = get_meeting(ret.target, current_user_id).data
              /\ ret.error = get_meeting(ret.target, current_user_id).error
        /\ ret.op = "process_query" =>
              /\ ret.status = process_query(ret.query, current_user_id).status
              /\ ret.rows = process_query(ret.query, current_user_id).rows

\* ---------------------------------------------------------------- C17
\* C17: for every query text and actor id (an unknown actor, a denied
\* permission, an unclassified query, an SQL agent that raises and a result
\* with malformed rows included), process_query raises nothing: it returns a
\* record with status "success" or "error" and a message, and a success
\* record carries its data list.
C17_AlwaysAStructuredResponse ==
    ret.op = "process_query" =>
        /\ ~ret.raised
        /\ ret.status \in {"success", "error"}
        /\ ret.message[1] # ""
        /\ ret.status = "success" => ret.has_data

\* The SQL agent gave a list holding a row that is no dict: iterating it
\* raised inside the try block and the call answered with an error record.
C17_Witness ==
    /\ ReachesSqlAgent(ret)
    /\ ~sql_agent.raises
    /\ sql_agent.is_list
    /\ \E i \in 1..Len(sql_agent.data) : ~sql_agent.data[i].is_dict
    /\ ~ret.raised
    /\ ret.status = "error"
    /\ ret.message[1] = "Error processing query: "

\* ---------------------------------------------------------------- C18
\* Some role the actor holds is granted a permission of that name, on the
\* given resource type or, when none is given (""), on any.
GrantedByARole(actor, permission_name, resource_type) ==
    \E ur \in user_role :
        /\ ur.employee_id = actor
        /\ \E rp \in role_permission, p \in Permission :
              /\ rp.role_id = ur.role_id
              /\ rp.permission_id = p.id
              /\ p.name = permission_name
              /\ resource_type = "" \/ p.resource_type = resource_type

\* C18: has_permission(A, p, rt) is true if and only if some role held by A
\* is granted a permission named p whose resource_type is rt (any
\* resource_type when rt is omitted); a resource type that is not the
\* permission's never succeeds, and an actor that matches no employee or
\* holds no role gets false.
C18_HasPermission ==
    ret.op = "has_permission" =>
        /\ ret.allowed <=> GrantedByARole(current_user_id, ret.action, ret.rtype)
        /\ (/\ ret.rtype # ""
            /\ \A p \in Permission : p.name = ret.action => p.resource_type # ret.rtype)
              => ~ret.allowed
        /\ (\/ current_user_id \notin EmpIds
            \/ \A ur \in user_role : ur.employee_id # current_user_id)
              => ~ret.allowed

\* The actor holds two roles, one that is granted the permission and one
\* that is not, and has_permission with the permission's resource type is
\* true.
C18_Witness ==
    /\ ret.op = "has_permission"
    /\ ret.rtype # ""
    /\ ret.allowed
    /\ \E ur \in user_role :
          /\ ur.employee_id = current_user_id
          /\ \A rp \in role_permission, p \in Permission :
                (rp.role_id = ur.role_id /\ rp.permission_id = p.id)
                   => p.name # ret.action

\* ---------------------------------------------------------------- C19
\* The team scope: the actor, the actor's direct reports and the members of
\* the teams on which the actor is flagged is_manager.
TeamScope(actor) ==
    {actor}
        \cup { e.id : e \in { e \in employee : e.manager_id = actor } }
        \cup { tm.employee_id : tm \in { tm \in team_member :
                                           FlaggedManagerOf(actor, tm.team_id) } }

\* C19: for an employee A who is not hr, get_employees gives exactly A,
\* every employee whose manager_id is A and, for each team on which A is
\* flagged is_manager, that team's other members.
C19_TeamScopedListing ==
    (/\ ret.op = "get_employees"
     /\ current_user_id \in EmpIds
     /\ ~HoldsRole(current_user_id, "hr"))
        => { e.id : e \in ret.data } = TeamScope(current_user_id)

\* ---------------------------------------------------------------- C20
\* C20: for an employee, task or meeting id that does not exist,
\* get_employee, get_task and get_meeting return their "not found" error
\* with no data, whoever the actor is and whatever roles the actor holds,
\* and leave no AccessLog row.
C20_NotFoundIsNotDenied ==
    [][/\ (ret'.op = "get_employee" /\ ret'.target \notin EmpIds)
             => /\ ret'.error = "Employee not found"
                /\ ret'.data = {}
                /\ access_log' = access_log
       /\ (ret'.op = "get_task" /\ ret'.target \notin TaskIds)
             => /\ ret'.error = "Task not found"
                /\ ret'.data = {}
                /\ access_log' = access_log
       /\ (ret'.op = "get_meeting" /\ ret'.target \notin MeetingIds)
             => /\ ret'.error = "Meeting not found"
                /\ ret'.data = {}
                /\ access_log' = access_log]_vars

\* An employee who holds no role, and is refused the tasks of others, asked
\* for a task that does not exist and was told it was not found.
C20_Witness ==
    /\ ret.op = "get_task"
    /\ ret.target \notin TaskIds
    /\ current_user_id \in EmpIds
    /\ \A ur \in user_role : ur.employee_id # current_user_id
    /\ \A t \in task : ~CanAccessTaskRule(current_user_id, t, "view")
    /\ ret.error = "Task not found"

\* ---- C21: malformed input is rejected whole
Malformed(rows) == \E i \in 1..Len(rows) : ~rows[i].is_dict

\* C21: when the value handed to _filter_results is not a list, or one of its
\* rows is not a dict, _filter_results returns the empty list, whatever the
\* resource type and the actor; no well-formed row of the input is returned.
C21_MalformedRejectedWhole ==
    (ret.op = "_filter_results" /\ (~sql_agent.is_list \/ Malformed(ret.input)))
        => ret.rows = <<>>

\* A list with a dict row the actor may see and a row that is no dict, of a
\* resource type _filter_results does not filter: nothing came back.
C21_Witness ==
    /\ ret.op = "_filter_results"
    /\ ret.rtype = "employees"
    /\ sql_agent.is_list
    /\ Malformed(ret.input)
    /\ \E i \in 1..Len(ret.input) :
           ret.input[i].is_dict
           /\ ret.input[i].id \in AuthorizedIds(current_user_id, "employees")
    /\ ret.rows = <<>>

\* ---- C22: filtering twice is filtering once
\* C22: _filter_results applied to its own result, for the same resource type
\* and actor and the same tables, returns that result again.
C22_FilterIdempotent ==
    ret.op = "_filter_results"
        => _filter_results([is_list |-> TRUE, rows |-> ret.rows], ret.rtype,
                           current_user_id) = ret.rows

\* A task listing of which the filter kept a row and dropped a row.
C22_Witness ==
    /\ ret.op = "_filter_results"
    /\ ret.rtype = "tasks"
    /\ Len(ret.rows) >= 1
    /\ Len(ret.rows) < Len(ret.input)

\* ---- C23: the filter only removes rows
\* kept is rows with some of its rows taken out: the rows of kept are rows of
\* rows, in the order they have there.
IsSubsequence(kept, rows) ==
    \E at \in [1..Len(kept) -> 1..Len(rows)] :
        /\ \A i \in 1..Len(kept) : kept[i] = rows[at[i]]
        /\ \A i, j \in 1..Len(kept) : i < j => at[i] < at[j]

\* C23: every row _filter_results returns is a row of its input, no id shows
\* up that the input did not hold, and the rows kept stand in the order they
\* have in the input.
C23_FilterOnlyRemoves ==
    ret.op = "_filter_results"
        => /\ IsSubsequence(ret.rows, ret.input)
           /\ { ret.rows[i].id : i \in 1..Len(ret.rows) }
                  \subseteq { ret.input[i].id : i \in 1..Len(ret.input) }

\* Two rows of different tasks, both kept.
C23_Witness ==
    /\ ret.op = "_filter_results"
    /\ ret.rtype = "tasks"
    /\ Len(ret.rows) = 2
    /\ ret.rows[1].id # ret.rows[2].id

\* ---- C29: create_task
\* The failure row a refused call leaves: the log grew by one row, of the
\* actor, with success false.
OneFailureRow(resource_id, action) ==
    access_log' = Append(access_log,
                         [employee_id |-> current_user_id, resource_type |-> "task",
                          resource_id |-> resource_id, action |-> action,
                          success |-> FALSE])

MayAssign(actor, assignee) ==
    /\ HoldsRole(actor, "manager")
    /\ HoldsPermission(actor, "assign_tasks")
    /\ \E e \in employee : e.id = assignee /\ e.manager_id = actor

MemberOf(assignee, team_id) ==
    \E tm \in team_member : tm.employee_id = assignee /\ tm.team_id = team_id

RoleAndTeamManager(actor, t) ==
    HoldsRole(actor, "manager") /\ FlaggedManagerOf(actor, t.team_id)

OnlyAssignee(actor, t) ==
    /\ t.assigned_to_id = actor
    /\ t.created_by_id # actor
    /\ ~RoleAndTeamManager(actor, t)

RbacReads ==
    {"has_permission", "has_role", "is_team_manager", "get_employee_teams",
     "can_access_task", "can_access_meeting", "filter_tasks_for_user"}

DalReads ==
    {"get_employee", "get_employees", "get_task", "get_tasks", "get_meeting",
     "get_meetings"}

\* Employee, Role, UserRole, Permission, RolePermission, Team, TeamMember,
\* Task, Meeting and MeetingTranscript (Role, Permission and Team are fixed
\* in the model).
StoreButLog == <<employee, user_role, role_permission, team_member, task, meeting,
                 meeting_transcript>>

\* C24: has_permission, has_role, is_team_manager, get_employee_teams,
\* can_access_task, can_access_meeting and filter_tasks_for_user change no
\* table at all; get_employee, get_employees, get_task, get_tasks, get_meeting
\* and get_meetings leave every table but AccessLog unchanged.
C24_ReadsWriteNothing ==
    [][/\ ret'.op \in RbacReads => UNCHANGED <<StoreButLog, access_log>>
       /\ ret'.op \in DalReads => UNCHANGED StoreButLog]_vars

\* A direct can_access_task call that allowed, the log being what it was
\* before the call, and the Task table the seeded one.
C24_Witness ==
    /\ ret.op = "can_access_task"
    /\ ret.allowed
    /\ access_log = PriorLog
    /\ { t \in task : t.id # 2 } = { t \in SeedTask : t.id # 2 }
    /\ Cardinality(task) = NumTask

\* ---- C25: decisions do not depend on the log or on earlier requests
DecisionRequests == {"get_employee", "get_task", "get_meeting", "process_query"}

\* The request recorded in r asks about something the store holds: an
\* existing row, or a query of a known employee that names a resource.
AsksForADecision(r) ==
    \/ r.op = "get_employee" /\ r.target \in EmpIds
    \/ r.op = "get_task" /\ r.target \in TaskIds
    \/ r.op = "get_meeting" /\ r.target \in MeetingIds
    \/ /\ r.op = "process_query"
       /\ current_user_id \in EmpIds
       /\ classify_query(r.query) # Unclassified

\* The step repeats the request of the call before it (states of Spec keep
\* the store, the actor and the SQL agent's answer as they are).
RepeatsRequest ==
    /\ ret.op \in DecisionRequests
    /\ ret'.op = ret.op
    /\ ret'.target = ret.target
    /\ ret'.query = ret.query
    /\ AsksForADecision(ret)

\* The repeated request gets the answer the first one got.
SameDecisionOnRepeat == [][RepeatsRequest => ret' = ret]_vars

\* C25: get_employee, get_task, get_meeting and process_query decide from the
\* identity, role, team, task and transcript tables alone: the same request
\* repeated against an unchanged store returns the same decision, and each
\* repetition appends one further AccessLog row.
C25_StatelessDecisions ==
    [][RepeatsRequest
          => /\ ret' = ret
             /\ Len(access_log') = Len(access_log) + 1
             /\ SubSeq(access_log', 1, Len(access_log)) = access_log]_vars

\* ---- C27: the team-manager rule and role "manager"
\* The tasks of teams on which the actor is flagged is_manager.
ManagedTeamTasks(actor) ==
    { t \in task : t.team_id # NULL /\ FlaggedManagerOf(actor, t.team_id) }

\* C27: the team-manager rule reads the is_manager flag alone: whether or not
\* the actor holds role "manager", can_access_task allows the tasks of the
\* teams the actor is flagged manager of, and filter_tasks_for_user lists
\* them.
C27_TeamManagerDecoupled ==
    /\ (ret.op = "can_access_task" /\ ret.target \in TaskIds
            /\ TaskRow(ret.target) \in ManagedTeamTasks(current_user_id))
          => ret.allowed
    /\ ret.op = "get_tasks" => ManagedTeamTasks(current_user_id) \subseteq ret.data

\* ---- C28: the listing and the single check agree
\* C28: for every actor A and task K, K is in filter_tasks_for_user(A) if
\* and only if can_access_task(A, K.id, "view") is true.
C28_BulkAndSingleAgree ==
    ret.op = "get_tasks"
        => \A k \in task :
              k \in ret.data <=> can_access_task(current_user_id, k.id, "view")

\* ---- C26: a decision is the rule's decision on one state of the store
HoldsRoleIn(st, actor, role_name) ==
    \E ur \in st.user_role :
        /\ ur.employee_id = actor
        /\ \E r \in Role : r.id = ur.role_id /\ r.name = role_name

HoldsPermissionIn(st, actor, permission_name) ==
    \E ur \in st.user_role, rp \in st.role_permission :
        /\ ur.employee_id = actor
        /\ rp.role_id = ur.role_id
        /\ \E p \in Permission : p.id = rp.permission_id /\ p.name = permission_name

\* The rules of get_employee, can_access_task and can_access_meeting on
\* the store value st, for the call c of the session's employee.
RuleIn(st, c) ==
    LET a == current_user_id IN
    CASE c.op = "get_employee" ->
            \/ c.target = a
            \/ \E e \in st.employee : e.id = c.target /\ e.manager_id = a
            \/ /\ HoldsRoleIn(st, a, "hr")
               /\ HoldsPermissionIn(st, a, "view_all_employees")
      [] c.op = "can_access_task" ->
            \E t \in c.row :
               \/ t.assigned_to_id = a
               \/ t.created_by_id = a
               \/ /\ t.team_id # NULL
                  /\ \E tm \in st.team_member :
                        tm.employee_id = a /\ tm.team_id = t.team_id /\ tm.is_manager
               \/ /\ c.action = "view"
                  /\ HoldsRoleIn(st, a, "hr")
                  /\ HoldsPermissionIn(st, a, "view_all_employees")
      [] c.op = "can_access_meeting" ->
            \/ /\ HoldsRoleIn(st, a, "hr")
               /\ HoldsPermissionIn(st, a, "view_all_transcripts")
            \/ \E e \in st.employee : e.id = a /\ SpeakerOf(c.target, e.name)
            \/ /\ a \in EmpIds
               /\ HoldsRoleIn(st, a, "manager")
               /\ \E e \in st.employee :
                     e.manager_id = a /\ SpeakerOf(c.target, e.name)
      [] OTHER -> FALSE

\* What the call answered: get_employee returned the row, the checks True.
Granted(r) == IF r.op = "get_employee" THEN r.error = "None" ELSE r.allowed

\* C26: when administrative changes to UserRole, RolePermission, TeamMember
\* or manager_id are committed while get_employee, can_access_task or
\* can_access_meeting runs, the decision the call returns is the decision
\* its rule gives on one of the states the store had during the call; access
\* is never granted from a role read in one state and a permission read in a
\* later one.
C26_DecisionOnOneSnapshot ==
    (in_flight.pc = "done" /\ ~ret.raised /\ ret.error # "Employee not found")
        => \E st \in in_flight.seen : Granted(ret) <=> RuleIn(st, in_flight)


====
